---- MODULE Spec2Model ----
(***************************************************************************)
(* KubernetesCodeExecutor (src/KubernetesInterpreter.py): one run() call   *)
(* stages a ConfigMap, launches a Job, polls its status until it reports   *)
(* succeeded/failed or the deadline passes, and always deletes both.       *)
(* The platform (API server and Job controller) is the environment: it     *)
(* answers every call with a status code and moves the Job's pods.         *)
(*                                                                         *)
(* Strings are sequences of string tokens, so that formatting, strip()     *)
(* and startswith() are computed rather than assumed.                      *)
(***************************************************************************)
EXTENDS Integers, Sequences, FiniteSets, TLC

\* ------------------------------------------------------------- bounds
MaxTimeout == 3
MaxLatency == 2
MaxLogLen == 2

\* -------------------------------------------------- program constants
backoff_limit == 2
POLL_SLEEP == 2
NOT_FOUND_SLEEP == 1
CONFIG_MAP_DATA_KEY == <<"script.py">>
CONTAINER_MOUNT_PATH == <<"/app">>
DefaultPrefix == <<"code-runner">>

\* ------------------------------------------------------ input domains
Runs == {"a1b2c3d4", "e5f6a7b8"}
FirstRun == "a1b2c3d4"
Prefixes == {DefaultPrefix, <<"code-runner", "2">>}
LogChars == {" ", "x"}
Logs == UNION {[1..n -> LogChars] : n \in 0..MaxLogLen}
ErrStatuses == {403, 500}

VARIABLES
    cms,              \* names of the ConfigMaps the namespace holds
    jobs,             \* job name -> the Job's platform state
    timeout_seconds,  \* self.timeout_seconds, fixed at construction
    max_latency,      \* longest duration of one platform call, in seconds
    faults,           \* whether the platform may answer a call with an error
    pc,               \* run -> position in run()
    via,              \* run -> "tool" (KubernetesExecutionTool._run) or "direct"
    prefix,           \* run -> the prefix argument
    now,              \* run -> the value time() returns to this call
    start_time,       \* run -> start_time of _wait_for_job_completion
    status,           \* run -> the status object the last poll read
    marked,           \* run -> the failed branch of the wait was taken
    pending,          \* run -> what run() is about to give its caller
    tool_result,      \* run -> what KubernetesExecutionTool._run returned
    resp,             \* run -> status code of the last platform answer
    hist,             \* run -> history of the call (calls made, answers seen)
    maint,            \* the maintenance caller: _cleanup_resources called on
                      \* its own, or cleanup_all_by_prefix
    container         \* libraries_used and the V1Container built from them

platformVars == <<cms, jobs>>
configVars == <<timeout_seconds, max_latency, faults>>
runVars == <<pc, via, prefix, now, start_time, status, marked, pending,
             tool_result, resp, hist>>
vars == <<cms, jobs, timeout_seconds, max_latency, faults, pc, via, prefix, now,
          start_time, status, marked, pending, tool_result, resp, hist, maint,
          container>>

\* ------------------------------------------------------------ strings
IsSpace(c) == c = " "

SetMin(S) == CHOOSE x \in S : \A y \in S : x <= y
SetMax(S) == CHOOSE x \in S : \A y \in S : x >= y

\* str.strip(): drop the leading and the trailing whitespace
Strip(s) ==
    LET keep == {i \in 1..Len(s) : ~IsSpace(s[i])}
    IN  IF keep = {} THEN <<>> ELSE SubSeq(s, SetMin(keep), SetMax(keep))

\* str.startswith(p)
StartsWith(s, p) == Len(p) <= Len(s) /\ SubSeq(s, 1, Len(p)) = p

Contains(s, t) ==
    \E i \in 0..(Len(s) - Len(t)) : SubSeq(s, i + 1, i + Len(t)) = t

JobName(p, id) == p \o <<"-job-", id>>
ConfigmapName(p, id) == p \o <<"-configmap-", id>>
\* variant: the name does not carry the run's own job_id
job_name_shared(r) == JobName(prefix[r], FirstRun)
job_name(r) == JobName(prefix[r], r)
configmap_name(r) == ConfigmapName(prefix[r], r)

Reason(code) ==
    CASE code = 403 -> "Forbidden"
      [] code = 404 -> "Not Found"
      [] code = 409 -> "Conflict"
      [] OTHER -> "Internal Server Error"

FAILURE_MARKER == <<"Job failed. Logs:\n">>
NO_POD_MESSAGE ==
    <<"Could not find pod for the job. It might have been deleted or failed to start.">>
LogErrorString(code) ==
    <<"Could not retrieve logs. Kubernetes API Error: ", Reason(code)>>
ApiErrorString(code) ==
    <<"Error: A Kubernetes API error occurred. Status: ", ToString(code),
      ", Reason: ", Reason(code)>>
TimeoutMessage(name, t) ==
    <<"Job '">> \o name \o <<"' did not complete within ", ToString(t), " seconds.">>
ToolErrorString(msg) == <<"An unexpected error occurred: ">> \o msg

\* ----------------------------------------------------------- platform
NewJob == [indexed |-> FALSE, active |-> 0, succeeded |-> 0, failed |-> 0,
           cond |-> "none"]
NoStatus == [active |-> 0, succeeded |-> 0, failed |-> 0, cond |-> "unread"]
StatusOf(j) == [active |-> j.active, succeeded |-> j.succeeded,
                failed |-> j.failed, cond |-> j.cond]
\* a platform call is answered at once or after max_latency seconds
Latencies == {0, max_latency}

NoPending == [kind |-> "none"]
Return(s) == [kind |-> "return", value |-> s]
RaiseTimeout(msg) == [kind |-> "raise", type |-> "TimeoutError", value |-> msg]

\* What a call has done so far: how often each step was invoked, the status
\* code that answered it (0: not called), and what the wait observed.
NoHist == [stage |-> 0, stageRes |-> 0, launch |-> 0, launchRes |-> 0,
           wait |-> 0, polls |-> 0, pollErr |-> 0, saw404 |-> FALSE,
           launchedAt |-> -1, lastPollAt |-> -1, raisedAt |-> -1,
           logs |-> "none", raw |-> <<>>, pod |-> 0,
           reap |-> 0, preReap |-> NoPending, delJob |-> 0, delCm |-> 0]

\* the maintenance caller before any call; ghost fields: pre (the namespace
\* when the call began), listedJobs/listedCms (what the list calls answered),
\* reqJobs/reqCms (names a delete was requested for), errs (names whose
\* deletion answered an error other than 404), late (Jobs whose deletion was
\* requested after a ConfigMap deletion of the same call)
NoMaint == [pc |-> "off", op |-> "none", prefix |-> <<>>, job |-> <<>>,
            cm |-> <<>>, todo |-> {}, calls |-> 0, raised |-> FALSE,
            pre |-> [jobs |-> <<>>, cms |-> {}], prev |-> <<>>,
            jobAns |-> 0, cmAns |-> 0,
            listedJobs |-> {}, listedCms |-> {}, lists |-> 0,
            reqJobs |-> {}, reqCms |-> {}, errs |-> {}, late |-> {}]

NoContainer == [stage |-> "none", libraries_used |-> <<>>, command |-> <<>>,
                args |-> <<>>, executed |-> <<>>]

RunsInit(callers) ==
    /\ pc = [r \in Runs |-> IF r \in callers THEN "idle" ELSE "off"]
    /\ via = [r \in Runs |-> "direct"]
    /\ prefix = [r \in Runs |-> DefaultPrefix]
    /\ now = [r \in Runs |-> 0]
    /\ start_time = [r \in Runs |-> 0]
    /\ status = [r \in Runs |-> NoStatus]
    /\ marked = [r \in Runs |-> FALSE]
    /\ pending = [r \in Runs |-> NoPending]
    /\ tool_result = [r \in Runs |-> NoPending]
    /\ resp = [r \in Runs |-> 0]
    /\ hist = [r \in Runs |-> NoHist]

InitWith(callers, timeouts, lat) ==
    /\ cms = {}
    /\ jobs = [n \in {} |-> NewJob]
    /\ timeout_seconds \in timeouts
    /\ max_latency = lat
    /\ faults = TRUE
    /\ maint = NoMaint
    /\ container = NoContainer
    /\ RunsInit(callers)

Init == InitWith({FirstRun}, 1..MaxTimeout, MaxLatency)

\* ------------------------------------------------- platform (the API)
Exists(name) == name \in DOMAIN jobs
WithJob(name, j) == [n \in DOMAIN jobs \cup {name} |-> IF n = name THEN j ELSE jobs[n]]
WithoutJob(name) == [n \in DOMAIN jobs \ {name} |-> jobs[n]]

\* the error answers a call can get, none on a platform without faults
Faulty(errors) == IF faults THEN errors ELSE {}
\* answers of create_namespaced_config_map / create_namespaced_job
CreateAnswers(exists) == (IF exists THEN {409} ELSE {201}) \cup Faulty(ErrStatuses)
\* answers of read_namespaced_job_status
StatusAnswers(name) ==
    (IF Exists(name) /\ jobs[name].indexed THEN {200} ELSE {404})
        \cup Faulty(ErrStatuses)
\* answers of a delete call
DeleteAnswers(exists) == (IF exists THEN {200} ELSE {404}) \cup Faulty({500})
\* answers of list_namespaced_pod and read_namespaced_pod_log
ReadAnswers == {200} \cup Faulty({500})
\* an answer the cleanup code prints an error for (0: no call made)
DeleteFailed(code) == code \notin {0, 200, 404}
\* pods the label selector job-name=<name> matches
PodCount(name) ==
    IF Exists(name)
    THEN jobs[name].active + jobs[name].succeeded + jobs[name].failed
    ELSE 0

\* The Job controller, as configured by V1JobSpec/V1PodSpec: one pod at a
\* time, restart_policy Never, a new pod after each failed one until more
\* than backoff_limit pods have failed.
IndexJob(name) ==
    /\ Exists(name) /\ ~jobs[name].indexed
    /\ jobs' = WithJob(name, [jobs[name] EXCEPT !.indexed = TRUE])
    /\ UNCHANGED <<maint, container, cms, configVars, runVars>>

PodCreate(name) ==
    /\ Exists(name) /\ jobs[name].cond = "none" /\ jobs[name].active = 0
    /\ jobs' = WithJob(name, [jobs[name] EXCEPT !.active = 1])
    /\ UNCHANGED <<maint, container, cms, configVars, runVars>>

PodSucceed(name) ==
    /\ Exists(name) /\ jobs[name].active = 1
    /\ jobs' = WithJob(name, [jobs[name] EXCEPT !.active = 0, !.succeeded = 1,
                                                !.cond = "Complete"])
    /\ UNCHANGED <<maint, container, cms, configVars, runVars>>

PodCrash(name) ==
    /\ Exists(name) /\ jobs[name].active = 1
    /\ jobs' = WithJob(name,
          [jobs[name] EXCEPT !.active = 0, !.failed = @ + 1,
                             !.cond = IF jobs[name].failed + 1 > backoff_limit
                                      THEN "Failed" ELSE "none"])
    /\ UNCHANGED <<maint, container, cms, configVars, runVars>>

\* ------------------------------------------------------------- run()
\* KubernetesExecutionTool._run calls executor.run(code, libraries_used),
\* leaving prefix at its default; a direct caller passes any prefix.
CallRun(r) ==
    /\ pc[r] = "idle"
    /\ \E v \in {"tool", "direct"}, p \in Prefixes :
         /\ v = "tool" => p = DefaultPrefix
         /\ via' = [via EXCEPT ![r] = v]
         /\ prefix' = [prefix EXCEPT ![r] = p]
    /\ pc' = [pc EXCEPT ![r] = "stage"]
    /\ UNCHANGED <<maint, container, platformVars, configVars, now, start_time, status, marked,
                   pending, tool_result, resp, hist>>

\* variant: the handler re-raises instead of returning the message
except_ApiException_reraise(r, code) ==
    /\ pending' = [pending EXCEPT ![r] =
          [kind |-> "raise", type |-> "ApiException", value |-> ApiErrorString(code)]]
    /\ pc' = [pc EXCEPT ![r] = "cleanup_job"]

\* variant: the cleanup sits after the try statement, not in a finally
\* clause, so the return inside the handler leaves run() without it
except_ApiException_nofinally(r, code) ==
    /\ pending' = [pending EXCEPT ![r] = Return(ApiErrorString(code))]
    /\ pc' = [pc EXCEPT ![r] = "run_end"]

\* except ApiException as e: return the formatted error; finally follows
except_ApiException(r, code) ==
    /\ pending' = [pending EXCEPT ![r] = Return(ApiErrorString(code))]
    /\ pc' = [pc EXCEPT ![r] = "cleanup_job"]

\* variant: a failed creation is printed and the run carries on
create_configmap_swallow(r) ==
    /\ pc[r] = "stage"
    /\ \E l \in Latencies, code \in CreateAnswers(configmap_name(r) \in cms) :
         /\ now' = [now EXCEPT ![r] = @ + l]
         /\ resp' = [resp EXCEPT ![r] = code]
         /\ hist' = [hist EXCEPT ![r].stage = @ + 1, ![r].stageRes = code]
         /\ cms' = IF code = 201 THEN cms \cup {configmap_name(r)} ELSE cms
         /\ pc' = [pc EXCEPT ![r] = "launch"]
    /\ UNCHANGED <<maint, container, jobs, configVars, via, prefix, start_time, status, marked,
                   pending, tool_result>>

\* self._create_configmap(configmap_name, code_to_run)
create_configmap(r) ==
    /\ pc[r] = "stage"
    /\ \E l \in Latencies, code \in CreateAnswers(configmap_name(r) \in cms) :
         /\ now' = [now EXCEPT ![r] = @ + l]
         /\ resp' = [resp EXCEPT ![r] = code]
         /\ hist' = [hist EXCEPT ![r].stage = @ + 1, ![r].stageRes = code]
         /\ IF code = 201
            THEN /\ cms' = cms \cup {configmap_name(r)}
                 /\ pc' = [pc EXCEPT ![r] = "launch"]
                 /\ UNCHANGED pending
            ELSE /\ except_ApiException(r, code)
                 /\ UNCHANGED cms
    /\ UNCHANGED <<maint, container, jobs, configVars, via, prefix, start_time, status, marked,
                   tool_result>>

\* self._create_and_run_job(job_name, configmap_name, libraries_used)
create_and_run_job(r) ==
    /\ pc[r] = "launch"
    /\ \E l \in Latencies, code \in CreateAnswers(Exists(job_name(r))) :
         /\ now' = [now EXCEPT ![r] = @ + l]
         /\ resp' = [resp EXCEPT ![r] = code]
         /\ hist' = [hist EXCEPT ![r].launch = @ + 1, ![r].launchRes = code,
                                 ![r].launchedAt = now[r] + l]
         /\ IF code = 201
            THEN /\ jobs' = WithJob(job_name(r), NewJob)
                 /\ pc' = [pc EXCEPT ![r] = "wait_start"]
                 /\ UNCHANGED pending
            ELSE /\ except_ApiException(r, code)
                 /\ UNCHANGED jobs
    /\ UNCHANGED <<maint, container, cms, configVars, via, prefix, start_time, status, marked,
                   tool_result>>

\* ------------------------------------------ _wait_for_job_completion
Elapsed(r) == now[r] - start_time[r]

\* variant: the deadline clock starts when run() is called
WaitStart_fromCall(r) ==
    /\ pc[r] = "wait_start"
    /\ start_time' = [start_time EXCEPT ![r] = 0]
    /\ hist' = [hist EXCEPT ![r].wait = @ + 1]
    /\ pc' = [pc EXCEPT ![r] = "wait_check"]
    /\ UNCHANGED <<maint, container, platformVars, configVars, via, prefix, now, status, marked,
                   pending, tool_result, resp>>

\* start_time = time()
WaitStart(r) ==
    /\ pc[r] = "wait_start"
    /\ start_time' = [start_time EXCEPT ![r] = now[r]]
    /\ hist' = [hist EXCEPT ![r].wait = @ + 1]
    /\ pc' = [pc EXCEPT ![r] = "wait_check"]
    /\ UNCHANGED <<maint, container, platformVars, configVars, via, prefix, now, status, marked,
                   pending, tool_result, resp>>

\* variant: <= in the loop condition
InTime_inclusive(r) == Elapsed(r) <= timeout_seconds

\* while time() - start_time < self.timeout_seconds
InTime(r) == Elapsed(r) < timeout_seconds

\* the loop head, and the raise TimeoutError(...) after the loop
WaitCheck(r) ==
    /\ pc[r] = "wait_check"
    /\ IF InTime(r)
       THEN /\ pc' = [pc EXCEPT ![r] = "poll"]
            /\ hist' = [hist EXCEPT ![r].lastPollAt = Elapsed(r)]
            /\ UNCHANGED pending
       ELSE /\ pending' = [pending EXCEPT ![r] =
                 RaiseTimeout(TimeoutMessage(job_name(r), timeout_seconds))]
            /\ hist' = [hist EXCEPT ![r].raisedAt = Elapsed(r)]
            /\ pc' = [pc EXCEPT ![r] = "cleanup_job"]
    /\ UNCHANGED <<maint, container, platformVars, configVars, via, prefix, now, start_time,
                   status, marked, tool_result, resp>>

\* variant: no status code is treated as transient
IsNotYetRegistered_never(code) == FALSE

\* variant: every failed query is retried
IsNotYetRegistered_any(code) == code # 200

\* except ApiException as e: if e.status == 404: sleep(1); continue
IsNotYetRegistered(code) == code = 404

\* status = read_namespaced_job_status(...) and the branches on it
ReadJobStatus(r) ==
    /\ pc[r] = "poll"
    /\ \E l \in Latencies, code \in StatusAnswers(job_name(r)) :
         /\ now' = [now EXCEPT ![r] = @ + l]
         /\ resp' = [resp EXCEPT ![r] = code]
         /\ hist' = [hist EXCEPT ![r].polls = 1,
                                 ![r].saw404 = @ \/ code = 404,
                                 ![r].pollErr = IF code \in {200, 404} THEN @ ELSE code]
         /\ IF code = 200
            THEN LET st == StatusOf(jobs[job_name(r)])
                 IN  /\ status' = [status EXCEPT ![r] = st]
                     /\ marked' = [marked EXCEPT ![r] =
                                     st.succeeded = 0 /\ st.failed > 0]
                     /\ pc' = [pc EXCEPT ![r] =
                                 IF st.succeeded > 0 \/ st.failed > 0
                                 THEN "list_pods" ELSE "sleep2"]
                     /\ UNCHANGED pending
            ELSE IF IsNotYetRegistered(code)
            THEN /\ pc' = [pc EXCEPT ![r] = "sleep1"]
                 /\ UNCHANGED <<status, marked, pending>>
            ELSE /\ except_ApiException(r, code)
                 /\ UNCHANGED <<status, marked>>
    /\ UNCHANGED <<maint, container, platformVars, configVars, via, prefix, start_time,
                   tool_result>>

\* variant: the 404 branch falls through to the general sleep(2)
Sleep_always2(r) ==
    /\ pc[r] \in {"sleep1", "sleep2"}
    /\ now' = [now EXCEPT ![r] = @ + POLL_SLEEP]
    /\ pc' = [pc EXCEPT ![r] = "wait_check"]
    /\ UNCHANGED <<maint, container, platformVars, configVars, via, prefix, start_time, status,
                   marked, pending, tool_result, resp, hist>>

\* sleep(1) after a 404, sleep(2) after a non-terminal status
Sleep(r) ==
    /\ pc[r] \in {"sleep1", "sleep2"}
    /\ now' = [now EXCEPT ![r] =
                 @ + (IF pc[r] = "sleep1" THEN NOT_FOUND_SLEEP ELSE POLL_SLEEP)]
    /\ pc' = [pc EXCEPT ![r] = "wait_check"]
    /\ UNCHANGED <<maint, container, platformVars, configVars, via, prefix, start_time, status,
                   marked, pending, tool_result, resp, hist>>

\* ------------------------------------------------------ _get_pod_logs
\* variant: the failed branch returns the bare logs
WaitReturn_unmarked(r, text) == Return(text)

\* return self._get_pod_logs(job_name), or the same behind the marker
WaitReturn(r, text) == Return(IF marked[r] THEN FAILURE_MARKER \o text ELSE text)

\* the pods list_namespaced_pod answers with, numbered in list order
PodList(name) == [i \in 1..PodCount(name) |-> i]
\* pod_name = pod_list.items[0].metadata.name
pod_name(items) == items[1]

\* variant: the pod listing is not guarded, its ApiException reaches run()
ListPods_unguarded(r) ==
    /\ pc[r] = "list_pods"
    /\ \E code \in ReadAnswers :
         /\ resp' = [resp EXCEPT ![r] = code]
         /\ IF code # 200
            THEN /\ except_ApiException(r, code)
                 /\ hist' = [hist EXCEPT ![r].logs = "error"]
            ELSE IF PodList(job_name(r)) = <<>>
            THEN /\ pending' = [pending EXCEPT ![r] = WaitReturn(r, NO_POD_MESSAGE)]
                 /\ hist' = [hist EXCEPT ![r].logs = "nopod"]
                 /\ pc' = [pc EXCEPT ![r] = "cleanup_job"]
            ELSE /\ pc' = [pc EXCEPT ![r] = "read_log"]
                 /\ hist' = [hist EXCEPT
                       ![r].pod = pod_name(PodList(job_name(r)))]
                 /\ UNCHANGED pending
    /\ UNCHANGED <<maint, container, platformVars, configVars, via, prefix, now, start_time,
                   status, marked, tool_result>>

\* pod_list = list_namespaced_pod(...); if not pod_list.items: return ...
ListPods(r) ==
    /\ pc[r] = "list_pods"
    /\ \E code \in ReadAnswers :
         /\ resp' = [resp EXCEPT ![r] = code]
         /\ IF code # 200
            THEN /\ pending' = [pending EXCEPT ![r] = WaitReturn(r, LogErrorString(code))]
                 /\ hist' = [hist EXCEPT ![r].logs = "error"]
                 /\ pc' = [pc EXCEPT ![r] = "cleanup_job"]
            ELSE IF PodList(job_name(r)) = <<>>
            THEN /\ pending' = [pending EXCEPT ![r] = WaitReturn(r, NO_POD_MESSAGE)]
                 /\ hist' = [hist EXCEPT ![r].logs = "nopod"]
                 /\ pc' = [pc EXCEPT ![r] = "cleanup_job"]
            ELSE /\ pc' = [pc EXCEPT ![r] = "read_log"]
                 /\ hist' = [hist EXCEPT
                       ![r].pod = pod_name(PodList(job_name(r)))]
                 /\ UNCHANGED pending
    /\ UNCHANGED <<maint, container, platformVars, configVars, via, prefix, now, start_time,
                   status, marked, tool_result>>

\* read_namespaced_pod_log(pod_name, namespace).strip()
ReadPodLog(r) ==
    /\ pc[r] = "read_log"
    /\ \E code \in ReadAnswers, text \in Logs :
         /\ resp' = [resp EXCEPT ![r] = code]
         /\ IF code = 200
            THEN /\ pending' = [pending EXCEPT ![r] = WaitReturn(r, Strip(text))]
                 /\ hist' = [hist EXCEPT ![r].logs = "ok", ![r].raw = text]
            ELSE /\ text = <<>>
                 /\ pending' = [pending EXCEPT ![r] = WaitReturn(r, LogErrorString(code))]
                 /\ hist' = [hist EXCEPT ![r].logs = "error"]
    /\ pc' = [pc EXCEPT ![r] = "cleanup_job"]
    /\ UNCHANGED <<maint, container, platformVars, configVars, via, prefix, now, start_time,
                   status, marked, tool_result>>

\* -------------------------------------------------- _cleanup_resources
\* variant: a deletion error other than 404 is re-raised
DeleteJob_raising(r) ==
    /\ pc[r] = "cleanup_job"
    /\ \E code \in DeleteAnswers(Exists(job_name(r))) :
         /\ resp' = [resp EXCEPT ![r] = code]
         /\ hist' = [hist EXCEPT ![r].reap = @ + 1, ![r].delJob = code,
                                 ![r].preReap = pending[r]]
         /\ jobs' = IF code = 200 THEN WithoutJob(job_name(r)) ELSE jobs
         /\ IF code \in {200, 404}
            THEN /\ pc' = [pc EXCEPT ![r] = "cleanup_cm"]
                 /\ UNCHANGED pending
            ELSE /\ pc' = [pc EXCEPT ![r] = "run_end"]
                 /\ pending' = [pending EXCEPT ![r] =
                       [kind |-> "raise", type |-> "ApiException",
                        value |-> ApiErrorString(code)]]
    /\ UNCHANGED <<maint, container, cms, configVars, via, prefix, now, start_time, status,
                   marked, tool_result>>

\* try: delete_namespaced_job(...) except ApiException: print unless 404
DeleteJob(r) ==
    /\ pc[r] = "cleanup_job"
    /\ \E code \in DeleteAnswers(Exists(job_name(r))) :
         /\ resp' = [resp EXCEPT ![r] = code]
         /\ hist' = [hist EXCEPT ![r].reap = @ + 1, ![r].delJob = code,
                                 ![r].preReap = pending[r]]
         /\ jobs' = IF code = 200 THEN WithoutJob(job_name(r)) ELSE jobs
    /\ pc' = [pc EXCEPT ![r] = "cleanup_cm"]
    /\ UNCHANGED <<maint, container, cms, configVars, via, prefix, now, start_time, status,
                   marked, pending, tool_result>>

\* variant: both deletions share one try block, so a job deletion that
\* raised (404 included) skips the ConfigMap deletion
DeleteConfigmap_sameTry(r) ==
    /\ pc[r] = "cleanup_cm"
    /\ \E code \in DeleteAnswers(configmap_name(r) \in cms) :
         IF hist[r].delJob = 200
         THEN /\ resp' = [resp EXCEPT ![r] = code]
              /\ hist' = [hist EXCEPT ![r].delCm = code]
              /\ cms' = IF code = 200 THEN cms \ {configmap_name(r)} ELSE cms
         ELSE UNCHANGED <<resp, hist, cms>>
    /\ pc' = [pc EXCEPT ![r] = "run_end"]
    /\ UNCHANGED <<maint, container, jobs, configVars, via, prefix, now, start_time, status,
                   marked, pending, tool_result>>

\* try: delete_namespaced_config_map(...) except ApiException: print unless
\* 404; then the finally block ends and run() returns or raises
DeleteConfigmap(r) ==
    /\ pc[r] = "cleanup_cm"
    /\ \E code \in DeleteAnswers(configmap_name(r) \in cms) :
         /\ resp' = [resp EXCEPT ![r] = code]
         /\ hist' = [hist EXCEPT ![r].delCm = code]
         /\ cms' = IF code = 200 THEN cms \ {configmap_name(r)} ELSE cms
    /\ pc' = [pc EXCEPT ![r] = "run_end"]
    /\ UNCHANGED <<maint, container, jobs, configVars, via, prefix, now, start_time, status,
                   marked, pending, tool_result>>

\* KubernetesExecutionTool._run: return results / except Exception as e
ToolReturn(r) ==
    /\ pc[r] = "run_end" /\ via[r] = "tool"
    /\ tool_result' = [tool_result EXCEPT ![r] =
          IF pending[r].kind = "raise"
          THEN Return(ToolErrorString(pending[r].value))
          ELSE pending[r]]
    /\ pc' = [pc EXCEPT ![r] = "tool_end"]
    /\ UNCHANGED <<maint, container, platformVars, configVars, via, prefix, now, start_time,
                   status, marked, pending, resp, hist>>

JobNames == {JobName(p, r) : p \in Prefixes, r \in Runs}

Platform ==
    \E n \in JobNames : IndexJob(n) \/ PodCreate(n) \/ PodSucceed(n) \/ PodCrash(n)

RunStep(r) ==
    \/ CallRun(r) \/ create_configmap(r) \/ create_and_run_job(r)
    \/ WaitStart(r) \/ WaitCheck(r) \/ ReadJobStatus(r) \/ Sleep(r)
    \/ ListPods(r) \/ ReadPodLog(r)
    \/ DeleteJob(r) \/ DeleteConfigmap(r) \/ ToolReturn(r)

Next == Platform \/ \E r \in Runs : RunStep(r)

Spec == Init /\ [][Next]_vars

\* ttl_seconds_after_finished: the TTL controller removes a finished Job,
\* its pods with it. Spec leaves it out (60 s do not pass within the
\* deadlines it explores); SpecTtl lets it act at any time after the finish.
TtlExpire(name) ==
    /\ Exists(name) /\ jobs[name].cond \in {"Complete", "Failed"}
    /\ jobs' = WithoutJob(name)
    /\ UNCHANGED <<maint, container, cms, configVars, runVars>>

NextTtl == Next \/ \E n \in JobNames : TtlExpire(n)

SpecTtl == Init /\ [][NextTtl]_vars

\* two run() calls by direct callers, under the same or different prefixes,
\* on a platform without faults
InitPair ==
    /\ cms = {}
    /\ jobs = [n \in {} |-> NewJob]
    /\ timeout_seconds = 1
    /\ max_latency = 0
    /\ faults = FALSE
    /\ maint = NoMaint
    /\ container = NoContainer
    /\ \E p \in Prefixes :
         prefix = [r \in Runs |-> IF r = FirstRun THEN DefaultPrefix ELSE p]
    /\ pc = [r \in Runs |-> "stage"]
    /\ via = [r \in Runs |-> "direct"]
    /\ now = [r \in Runs |-> 0]
    /\ start_time = [r \in Runs |-> 0]
    /\ status = [r \in Runs |-> NoStatus]
    /\ marked = [r \in Runs |-> FALSE]
    /\ pending = [r \in Runs |-> NoPending]
    /\ tool_result = [r \in Runs |-> NoPending]
    /\ resp = [r \in Runs |-> 0]
    /\ hist = [r \in Runs |-> NoHist]

PairStep(r) ==
    \/ create_configmap(r) \/ create_and_run_job(r)
    \/ WaitStart(r) \/ WaitCheck(r) \/ ReadJobStatus(r) \/ Sleep(r)
    \/ ListPods(r) \/ ReadPodLog(r)
    \/ DeleteJob(r) \/ DeleteConfigmap(r)

NextPair == Platform \/ \E r \in Runs : PairStep(r)

SpecPair == InitPair /\ [][NextPair]_vars

\* ============================== maintenance: cleanup outside run()
\* how many maintenance calls one behaviour makes
MaxMaintCalls == 2

DUMMY_CM == <<"dummy-cm">>

\* a Job some earlier run left behind, already finished
LeakedJob == [indexed |-> TRUE, active |-> 0, succeeded |-> 1, failed |-> 0,
              cond |-> "Complete"]

\* names a namespace may hold before a maintenance call: Jobs and ConfigMaps
\* of earlier runs under either prefix, and a ConfigMap called dummy-cm
LeakedJobNames == {JobName(DefaultPrefix, "a1b2c3d4"),
                   JobName(DefaultPrefix, "e5f6a7b8"),
                   JobName(<<"code-runner", "2">>, "a1b2c3d4")}
LeakedCmNames == {ConfigmapName(DefaultPrefix, "a1b2c3d4"),
                  ConfigmapName(<<"code-runner", "2">>, "a1b2c3d4"),
                  DUMMY_CM}
\* (job_name, configmap_name) pairs _cleanup_resources is called with
CleanupArgs == {<<JobName(p, r), ConfigmapName(p, r)>> : p \in Prefixes, r \in Runs}

ListAnswers == {200} \cup Faulty({500})

MaintBegin(op, p, j, c) ==
    [maint EXCEPT !.pc = IF op = "bulk" THEN "list_jobs" ELSE "reap_job",
                  !.op = op, !.prefix = p, !.job = j, !.cm = c, !.todo = {},
                  !.raised = FALSE, !.pre = [jobs |-> jobs, cms |-> cms],
                  !.prev = IF maint.op = "reap" THEN <<maint.job, maint.cm>>
                           ELSE <<>>,
                  !.jobAns = 0, !.cmAns = 0,
                  !.listedJobs = {}, !.listedCms = {}, !.lists = 0,
                  !.reqJobs = {}, !.reqCms = {}, !.errs = {}, !.late = {}]

\* a caller invokes _cleanup_resources(job_name, configmap_name) on its own
CallCleanupResources(j, c) ==
    /\ maint.pc = "idle" /\ maint.calls < MaxMaintCalls
    /\ maint' = MaintBegin("reap", <<>>, j, c)
    /\ UNCHANGED <<platformVars, configVars, runVars, container>>

\* variant: the job deletion is not guarded, any ApiException leaves the call
MaintDeleteJob_raising ==
    /\ maint.pc = "reap_job"
    /\ \E code \in DeleteAnswers(Exists(maint.job)) :
         /\ jobs' = IF code = 200 THEN WithoutJob(maint.job) ELSE jobs
         /\ maint' = [maint EXCEPT
               !.pc = IF code = 200 THEN "reap_cm" ELSE "idle",
               !.calls = IF code = 200 THEN @ ELSE @ + 1,
               !.raised = code # 200,
               !.jobAns = code,
               !.reqJobs = @ \cup {maint.job},
               !.late = IF maint.reqCms # {} THEN @ \cup {maint.job} ELSE @,
               !.errs = IF DeleteFailed(code) THEN @ \cup {maint.job} ELSE @]
    /\ UNCHANGED <<cms, configVars, runVars, container>>

\* _cleanup_resources, first try block: delete_namespaced_job with
\* propagation_policy Foreground; an ApiException is printed unless 404
MaintDeleteJob ==
    /\ maint.pc = "reap_job"
    /\ \E code \in DeleteAnswers(Exists(maint.job)) :
         /\ jobs' = IF code = 200 THEN WithoutJob(maint.job) ELSE jobs
         /\ maint' = [maint EXCEPT
               !.pc = "reap_cm",
               !.jobAns = code,
               !.reqJobs = @ \cup {maint.job},
               !.late = IF maint.reqCms # {} THEN @ \cup {maint.job} ELSE @,
               !.errs = IF DeleteFailed(code) THEN @ \cup {maint.job} ELSE @]
    /\ UNCHANGED <<cms, configVars, runVars, container>>

\* _cleanup_resources, second try block: delete_namespaced_config_map; then
\* the call returns, to the loop of cleanup_all_by_prefix or to the caller
MaintDeleteConfigmap ==
    /\ maint.pc = "reap_cm"
    /\ \E code \in DeleteAnswers(maint.cm \in cms) :
         /\ cms' = IF code = 200 THEN cms \ {maint.cm} ELSE cms
         /\ maint' = [maint EXCEPT
               !.pc = IF maint.op = "bulk" THEN "job_loop" ELSE "idle",
               !.calls = IF maint.op = "bulk" THEN @ ELSE @ + 1,
               !.cmAns = code,
               !.reqCms = @ \cup {maint.cm},
               !.errs = IF DeleteFailed(code) THEN @ \cup {maint.cm} ELSE @]
    /\ UNCHANGED <<jobs, configVars, runVars, container>>

\* a caller invokes cleanup_all_by_prefix(prefix)
CallCleanupAllByPrefix(p) ==
    /\ maint.pc = "idle" /\ maint.calls < MaxMaintCalls
    /\ maint' = MaintBegin("bulk", p, <<>>, <<>>)
    /\ UNCHANGED <<platformVars, configVars, runVars, container>>

\* jobs = list_namespaced_job(...): outside any try, an ApiException leaves
\* cleanup_all_by_prefix
ListJobs ==
    /\ maint.pc = "list_jobs"
    /\ \E code \in ListAnswers :
         maint' = IF code = 200
                  THEN [maint EXCEPT !.pc = "job_loop", !.todo = DOMAIN jobs,
                                     !.listedJobs = DOMAIN jobs, !.lists = 1]
                  ELSE [maint EXCEPT !.pc = "idle", !.raised = TRUE,
                                     !.calls = @ + 1]
    /\ UNCHANGED <<platformVars, configVars, runVars, container>>

\* for job in jobs.items: if name.startswith(prefix):
\*     _cleanup_resources(name, "dummy-cm")
NextJob ==
    /\ maint.pc = "job_loop"
    /\ IF maint.todo = {}
       THEN maint' = [maint EXCEPT !.pc = "list_cms"]
       ELSE \E n \in maint.todo :
              maint' = IF StartsWith(n, maint.prefix)
                       THEN [maint EXCEPT !.todo = @ \ {n}, !.job = n,
                                          !.cm = DUMMY_CM, !.pc = "reap_job"]
                       ELSE [maint EXCEPT !.todo = @ \ {n}]
    /\ UNCHANGED <<platformVars, configVars, runVars, container>>

\* configmaps = list_namespaced_config_map(...): outside any try as well
ListConfigmaps ==
    /\ maint.pc = "list_cms"
    /\ \E code \in ListAnswers :
         maint' = IF code = 200
                  THEN [maint EXCEPT !.pc = "cm_loop", !.todo = cms,
                                     !.listedCms = cms, !.lists = 2]
                  ELSE [maint EXCEPT !.pc = "idle", !.raised = TRUE,
                                     !.calls = @ + 1]
    /\ UNCHANGED <<platformVars, configVars, runVars, container>>

\* variant: the deletion in the ConfigMap loop is not guarded, an error
\* answer leaves cleanup_all_by_prefix
NextConfigmap_unguarded ==
    /\ maint.pc = "cm_loop"
    /\ IF maint.todo = {}
       THEN /\ maint' = [maint EXCEPT !.pc = "idle", !.calls = @ + 1]
            /\ UNCHANGED cms
       ELSE \E n \in maint.todo :
              IF StartsWith(n, maint.prefix)
              THEN \E code \in DeleteAnswers(n \in cms) :
                     /\ cms' = IF code = 200 THEN cms \ {n} ELSE cms
                     /\ maint' = [maint EXCEPT
                           !.todo = @ \ {n},
                           !.pc = IF code = 200 THEN @ ELSE "idle",
                           !.calls = IF code = 200 THEN @ ELSE @ + 1,
                           !.raised = code # 200,
                           !.reqCms = @ \cup {n},
                           !.errs = IF DeleteFailed(code) THEN @ \cup {n} ELSE @]
              ELSE /\ maint' = [maint EXCEPT !.todo = @ \ {n}]
                   /\ UNCHANGED cms
    /\ UNCHANGED <<jobs, configVars, runVars, container>>

\* for cm in configmaps.items: if name.startswith(prefix):
\*     try: delete_namespaced_config_map(name) except ApiException: print
\*     unless 404
NextConfigmap ==
    /\ maint.pc = "cm_loop"
    /\ IF maint.todo = {}
       THEN /\ maint' = [maint EXCEPT !.pc = "idle", !.calls = @ + 1]
            /\ UNCHANGED cms
       ELSE \E n \in maint.todo :
              IF StartsWith(n, maint.prefix)
              THEN \E code \in DeleteAnswers(n \in cms) :
                     /\ cms' = IF code = 200 THEN cms \ {n} ELSE cms
                     /\ maint' = [maint EXCEPT
                           !.todo = @ \ {n},
                           !.reqCms = @ \cup {n},
                           !.errs = IF DeleteFailed(code) THEN @ \cup {n} ELSE @]
              ELSE /\ maint' = [maint EXCEPT !.todo = @ \ {n}]
                   /\ UNCHANGED cms
    /\ UNCHANGED <<jobs, configVars, runVars, container>>

MaintStep ==
    \/ \E a \in CleanupArgs : CallCleanupResources(a[1], a[2])
    \/ \E p \in Prefixes : CallCleanupAllByPrefix(p)
    \/ MaintDeleteJob \/ MaintDeleteConfigmap
    \/ ListJobs \/ NextJob \/ ListConfigmaps \/ NextConfigmap

\* a namespace holding leftovers of earlier runs, no run() in progress
InitMaint ==
    /\ \E lj \in SUBSET LeakedJobNames : jobs = [n \in lj |-> LeakedJob]
    /\ cms \in SUBSET LeakedCmNames
    /\ timeout_seconds = MaxTimeout
    /\ max_latency = MaxLatency
    /\ faults = TRUE
    /\ maint = [NoMaint EXCEPT !.pc = "idle"]
    /\ container = NoContainer
    /\ RunsInit({})

SpecMaint == InitMaint /\ [][MaintStep]_vars

\* ================== _create_and_run_job: the container's command line
\* longest libraries_used list tried
MaxDeps == 3

Libraries == {"numpy", "pandas", "requests"}
LibraryLists == UNION {[1..n -> Libraries] : n \in 0..MaxDeps}

\* A string is a sequence of tokens and a space separates two words, so
\* ' '.join(xs) of one-word items is xs itself and an f-string is a
\* concatenation; the three tokens of SCRIPT_PATH form one word.
SCRIPT_PATH == CONTAINER_MOUNT_PATH \o <<"/">> \o CONFIG_MAP_DATA_KEY
PIP_INSTALL == <<"pip3", "install", "--no-cache-dir", "--user">>

\* lines 111-118: the args list, one string per element
BuildArgs ==
    /\ container.stage = "call"
    /\ container' = [container EXCEPT
          !.stage = "args",
          !.args = IF Len(container.libraries_used) > 0
                   THEN << PIP_INSTALL \o container.libraries_used
                              \o <<"&&", "python3">>,
                           <<"-u">>, SCRIPT_PATH >>
                   ELSE << <<"python3">>, <<"-u">>, SCRIPT_PATH >>]
    /\ UNCHANGED <<platformVars, configVars, runVars, maint>>

\* lines 132-140: V1Container(command=["/bin/bash", "-c"], args=args)
BuildContainer ==
    /\ container.stage = "args"
    /\ container' = [container EXCEPT !.stage = "container",
                                      !.command = << <<"/bin/bash">>, <<"-c">> >>]
    /\ UNCHANGED <<platformVars, configVars, runVars, maint>>

\* the simple commands of a shell command string, split at '&&'
RECURSIVE ShellCommands(_)
ShellCommands(words) ==
    IF \E i \in 1..Len(words) : words[i] = "&&"
    THEN LET i == SetMin({k \in 1..Len(words) : words[k] = "&&"})
         IN  <<SubSeq(words, 1, i - 1)>>
                \o ShellCommands(SubSeq(words, i + 1, Len(words)))
    ELSE <<words>>

\* bash -c command_string [name [argument...]]: the first argument after -c
\* is the command string; the ones after it only set $0, $1, ... for it
BashC(argv) == ShellCommands(argv[1])

\* the kubelet starts the container with argv = command + args
ContainerStart ==
    /\ container.stage = "container"
    /\ LET argv == container.command \o container.args
       IN  container' = [container EXCEPT
              !.stage = "ran",
              !.executed = IF SubSeq(argv, 1, 2) = << <<"/bin/bash">>, <<"-c">> >>
                           THEN BashC(SubSeq(argv, 3, Len(argv)))
                           ELSE <<>>]
    /\ UNCHANGED <<platformVars, configVars, runVars, maint>>

CmdStep == BuildArgs \/ BuildContainer \/ ContainerStart

InitCmd ==
    /\ cms = {}
    /\ jobs = [n \in {} |-> NewJob]
    /\ timeout_seconds = MaxTimeout
    /\ max_latency = MaxLatency
    /\ faults = TRUE
    /\ maint = NoMaint
    /\ \E libs \in LibraryLists :
         container = [NoContainer EXCEPT !.stage = "call", !.libraries_used = libs]
    /\ RunsInit({})

SpecCmd == InitCmd /\ [][CmdStep]_vars

\* ===================================================== the claims
Ended(r) == pc[r] \in {"run_end", "tool_end"}
Reaping(r) == pc[r] \in {"cleanup_cm", "run_end", "tool_end"}
\* the wait saw a terminal status and went on to fetch the logs
WaitReturned(r) == hist[r].logs # "none"
TimedOut(r) == hist[r].raisedAt >= 0
\* what _get_pod_logs gave back, from the answers it got
FetchedText(r) ==
    CASE hist[r].logs = "ok" -> Strip(hist[r].raw)
      [] hist[r].logs = "nopod" -> NO_POD_MESSAGE
      [] OTHER -> LogErrorString(500)

\* C1: once run() has returned or raised, whatever failed at staging,
\* launching or waiting, and no deletion call having failed with an error other
\* than not-found, the namespace holds neither the run's Job nor its ConfigMap.
C1_AlwaysCleanup ==
    \A r \in Runs :
        (Ended(r) /\ ~DeleteFailed(hist[r].delJob) /\ ~DeleteFailed(hist[r].delCm))
            => (~Exists(job_name(r)) /\ configmap_name(r) \notin cms)

\* a launch that failed after a successful staging, cleaned up
C1_Witness ==
    \E r \in Runs :
        /\ Ended(r) /\ hist[r].stageRes = 201 /\ hist[r].launchRes = 500
        /\ hist[r].delJob = 404 /\ hist[r].delCm = 200
        /\ ~Exists(job_name(r)) /\ configmap_name(r) \notin cms

\* C2 as stated: run() ends by returning a string for every outcome, the
\* deadline included.
C2_RunNeverRaises ==
    \A r \in Runs : Ended(r) => pending[r].kind = "return"

\* C2 amended: run() returns a string for every outcome of staging,
\* launching and waiting except the expired deadline, where TimeoutError
\* leaves run(); KubernetesExecutionTool._run turns that into a string too.
C2_OnlyTimeoutEscapes ==
    \A r \in Runs :
        /\ Ended(r) =>
              IF TimedOut(r)
              THEN pending[r] = RaiseTimeout(TimeoutMessage(job_name(r), timeout_seconds))
              ELSE pending[r].kind = "return"
        /\ pending[r].kind = "raise" => TimedOut(r)
        /\ pc[r] = "tool_end" =>
              /\ tool_result[r].kind = "return"
              /\ tool_result[r].value =
                    IF TimedOut(r) THEN ToolErrorString(pending[r].value)
                    ELSE pending[r].value

\* the deadline expired under the tool, which answered with a string
C2_Witness ==
    \E r \in Runs :
        /\ pc[r] = "tool_end" /\ TimedOut(r)
        /\ pending[r].kind = "raise"
        /\ tool_result[r] = Return(ToolErrorString(
              TimeoutMessage(job_name(r), timeout_seconds)))

\* C3: _cleanup_resources is invoked exactly once per run() call, and no
\* staging, launching or waiting step of the call follows it.
C3_ReapExactlyOnce ==
    \A r \in Runs :
        /\ hist[r].reap <= 1
        /\ Ended(r) => hist[r].reap = 1
        /\ hist[r].reap = 1 <=> Reaping(r)

\* reaped once after staging itself failed
C3_Witness ==
    \E r \in Runs :
        Ended(r) /\ hist[r].stageRes = 403 /\ hist[r].launch = 0 /\ hist[r].reap = 1

\* C4 as stated: with every poll answered pending/running, TimeoutError is
\* raised at an elapsed time t with timeout <= t <= timeout + 2.
C4_TimeoutWithinOnePollInterval ==
    \A r \in Runs :
        (TimedOut(r) /\ ~hist[r].saw404) =>
            /\ timeout_seconds <= hist[r].raisedAt
            /\ hist[r].raisedAt <= timeout_seconds + POLL_SLEEP

\* C4 amended: with every poll answered pending/running, the last poll
\* starts before timeout_seconds have elapsed, TimeoutError (naming the job and
\* the timeout) is raised at the loop check that follows that poll's query and
\* its 2 s sleep, never before timeout_seconds, and less than 2 s plus the
\* duration of a status query after it.
C4_TimeoutAfterLastPoll ==
    \A r \in Runs :
        (TimedOut(r) /\ ~hist[r].saw404) =>
            /\ timeout_seconds <= hist[r].raisedAt
            /\ hist[r].lastPollAt < timeout_seconds
            /\ hist[r].raisedAt - hist[r].lastPollAt - POLL_SLEEP \in Latencies
            /\ hist[r].raisedAt < timeout_seconds + POLL_SLEEP + max_latency
            /\ pending[r] = RaiseTimeout(TimeoutMessage(job_name(r), timeout_seconds))
            /\ pc[r] \in {"cleanup_job", "cleanup_cm", "run_end", "tool_end"}

\* a slow last query: the deadline is reported more than 2 s late
C4_Witness ==
    \E r \in Runs :
        /\ TimedOut(r) /\ ~hist[r].saw404
        /\ hist[r].raisedAt > timeout_seconds + POLL_SLEEP

\* C5 as stated: the wait returns a result only on a terminal Job, and
\* failure-marked output only once the Job is marked Failed, its retry budget
\* (backoff_limit further pods) used up.
C5_ResultOnlyWhenTerminal ==
    \A r \in Runs :
        WaitReturned(r) =>
            /\ status[r].cond \in {"Complete", "Failed"}
            /\ marked[r] => (status[r].cond = "Failed"
                             /\ status[r].failed > backoff_limit)

\* C6: a 404 answer to a status query neither ends the wait nor becomes
\* an error string; when a later query reports succeeded, run() returns the
\* fetched output without the failure marker.
C6_TransientNotFound ==
    \A r \in Runs :
        /\ pending[r] # Return(ApiErrorString(404))
        /\ pc[r] = "sleep1" => (hist[r].saw404 /\ resp[r] = 404)
        /\ (hist[r].saw404 /\ WaitReturned(r) /\ status[r].succeeded > 0) =>
              /\ pending[r] = Return(FetchedText(r))
              /\ hist[r].pollErr = 0 /\ ~TimedOut(r)

\* not found first, succeeded later, the log returned
C6_Witness ==
    \E r \in Runs :
        /\ Ended(r) /\ hist[r].saw404 /\ status[r].succeeded > 0
        /\ hist[r].logs = "ok" /\ hist[r].raw = <<"x">>
        /\ pending[r] = Return(<<"x">>)

\* C7: a status with failed pods and none succeeded makes run() return
\* (not raise, not the API error message) the failure marker followed by the
\* fetched log text; a status with a succeeded pod makes it return the fetched
\* log text alone.
C7_FailureFormatting ==
    \A r \in Runs :
        WaitReturned(r) =>
            /\ pending[r].kind = "return"
            /\ status[r].succeeded > 0 => pending[r].value = FetchedText(r)
            /\ status[r].succeeded = 0 =>
                  /\ status[r].failed > 0
                  /\ pending[r].value = FAILURE_MARKER \o FetchedText(r)
                  /\ StartsWith(pending[r].value, FAILURE_MARKER)

\* a failed Job whose log had surrounding whitespace
C7_Witness ==
    \E r \in Runs :
        /\ Ended(r) /\ status[r].cond = "Failed" /\ hist[r].logs = "ok"
        /\ hist[r].raw = <<" ", "x">>
        /\ pending[r] = Return(FAILURE_MARKER \o <<"x">>)

\* C8: staging and launching are each attempted at most once; after a
\* failed staging neither launching nor waiting happens, after a failed
\* launching no waiting happens, and the cleanup still runs before run() ends.
C8_AbortOrdering ==
    \A r \in Runs :
        /\ hist[r].stage <= 1 /\ hist[r].launch <= 1
        /\ hist[r].stageRes \notin {0, 201} =>
              /\ hist[r].launch = 0 /\ hist[r].wait = 0 /\ hist[r].polls = 0
              /\ pc[r] \in {"cleanup_job", "cleanup_cm", "run_end", "tool_end"}
        /\ hist[r].launchRes \notin {0, 201} =>
              /\ hist[r].wait = 0 /\ hist[r].polls = 0
              /\ pc[r] \in {"cleanup_job", "cleanup_cm", "run_end", "tool_end"}
        /\ (Ended(r) /\ (hist[r].stageRes # 201 \/ hist[r].launchRes # 201)) =>
              hist[r].reap = 1

\* staging failed: nothing launched, nothing polled, reaped
C8_Witness ==
    \E r \in Runs :
        /\ Ended(r) /\ hist[r].stage = 1 /\ hist[r].stageRes = 500
        /\ hist[r].launch = 0 /\ hist[r].wait = 0 /\ hist[r].reap = 1

\* C9: a status query answered with an error other than 404 ends the
\* wait at once (no further query, no sleep), run() returns the error message
\* carrying that status code, and the cleanup still runs.
C9_WatcherAbortsOnError ==
    \A r \in Runs :
        hist[r].pollErr # 0 =>
            /\ pc[r] \in {"cleanup_job", "cleanup_cm", "run_end", "tool_end"}
            /\ Elapsed(r) - hist[r].lastPollAt \in Latencies
            /\ pending[r] = Return(ApiErrorString(hist[r].pollErr))
            /\ Contains(pending[r].value, <<ToString(hist[r].pollErr)>>)
            /\ Ended(r) => hist[r].reap = 1

\* the second query failed with 403
C9_Witness ==
    \E r \in Runs :
        /\ Ended(r) /\ hist[r].pollErr = 403 /\ hist[r].lastPollAt > 0
        /\ hist[r].reap = 1

\* C10: the ConfigMap deletion is attempted whatever the Job deletion
\* answered, no deletion error leaves the cleanup, and what run() returns or
\* raises is what it was about to return or raise when the cleanup began.
C10_CleanupErrorsSwallowed ==
    \A r \in Runs :
        /\ hist[r].reap >= 1 => pending[r] = hist[r].preReap
        /\ Ended(r) => (hist[r].delJob # 0 /\ hist[r].delCm # 0)
        /\ pending[r].kind = "raise" => pending[r].type = "TimeoutError"

\* both deletions failed and the log is still what run() returns
C10_Witness ==
    \E r \in Runs :
        /\ Ended(r) /\ hist[r].delJob = 500 /\ hist[r].delCm = 500
        /\ hist[r].logs = "ok" /\ pending[r] = Return(Strip(hist[r].raw))

\* C14 as stated: whenever a run's Job exists, the ConfigMap it mounts
\* exists too.
C14_PayloadCoversRunUnit ==
    \A r \in Runs : Exists(job_name(r)) => configmap_name(r) \in cms

\* C16: the deadline clock starts when the wait starts, after the
\* launch call has returned, so a TimeoutError comes only after at least
\* timeout_seconds of waiting; it is raised, never returned as output, and a
\* wait that fetched output (failure-marked or not) never reports a timeout.
C16_DeadlineFromFirstPoll ==
    \A r \in Runs :
        /\ hist[r].wait = 1 => start_time[r] = hist[r].launchedAt
        /\ TimedOut(r) =>
              /\ now[r] - hist[r].launchedAt >= timeout_seconds
              /\ hist[r].polls = 1
              /\ pending[r].kind = "raise" /\ pending[r].type = "TimeoutError"
              /\ ~StartsWith(pending[r].value, FAILURE_MARKER)
              /\ ~WaitReturned(r)
        /\ WaitReturned(r) =>
              /\ ~TimedOut(r)
              /\ pending[r].kind = "return"
              /\ pending[r].value # TimeoutMessage(job_name(r), timeout_seconds)

\* staging and launching alone took at least timeout_seconds, and the wait
\* still polled before it timed out
C16_Witness ==
    \E r \in Runs :
        /\ TimedOut(r) /\ hist[r].launchedAt >= timeout_seconds
        /\ hist[r].polls = 1 /\ hist[r].lastPollAt >= 0

\* C19: when every status query answers 404, each retry follows a 1 s
\* sleep (the 2 s sleep follows only a status that was read), no query starts
\* once timeout_seconds have elapsed, and the wait ends with TimeoutError, not
\* with a platform error.
C19_PersistentNotFound ==
    \A r \in Runs :
        /\ pc[r] = "sleep2" => resp[r] = 200
        /\ pc[r] \in {"poll", "sleep1", "sleep2"} =>
              hist[r].lastPollAt < timeout_seconds
        /\ (pc[r] = "sleep1" /\ status[r] = NoStatus) =>
              Elapsed(r) - hist[r].lastPollAt \in Latencies
        /\ (TimedOut(r) /\ status[r] = NoStatus) =>
              /\ hist[r].saw404 /\ hist[r].pollErr = 0
              /\ hist[r].raisedAt >= timeout_seconds
              /\ hist[r].lastPollAt < timeout_seconds
              /\ hist[r].raisedAt - hist[r].lastPollAt - NOT_FOUND_SLEEP \in Latencies
              /\ pending[r] = RaiseTimeout(TimeoutMessage(job_name(r), timeout_seconds))

\* nothing but 404 over at least two queries, then the TimeoutError
C19_Witness ==
    \E r \in Runs :
        /\ Ended(r) /\ TimedOut(r) /\ status[r] = NoStatus /\ hist[r].saw404
        /\ hist[r].lastPollAt >= 1 /\ pending[r].kind = "raise"

\* ------------------------------------------------------------------ C11
MaintReturned(op) == maint.op = op /\ maint.pc = "idle"
Matching(names) == {n \in names : StartsWith(n, maint.prefix)}

\* C11: a call of _cleanup_resources on a Job and a ConfigMap that are both
\* absent (deleted by an earlier call or never created) raises nothing and
\* leaves the Jobs and ConfigMaps of the namespace exactly as they were; the
\* only answers it can get are 404, which is ignored, or a platform error,
\* which is printed.
C11_IdempotentCleanup ==
    (/\ maint.op = "reap"
     /\ maint.job \notin DOMAIN maint.pre.jobs
     /\ maint.cm \notin maint.pre.cms) =>
        /\ ~maint.raised
        /\ jobs = maint.pre.jobs /\ cms = maint.pre.cms
        /\ maint.jobAns \in {0, 404, 500} /\ maint.cmAns \in {0, 404, 500}
        /\ maint.pc = "idle" =>
              /\ maint.reqJobs = {maint.job} /\ maint.reqCms = {maint.cm}
              /\ maint.jobAns # 0 /\ maint.cmAns # 0
              /\ maint.errs = {n \in {maint.job} : maint.jobAns = 500}
                               \cup {n \in {maint.cm} : maint.cmAns = 500}

\* a second call on the same names, both absent, answered 404 twice
C11_Witness ==
    /\ MaintReturned("reap") /\ maint.calls = 2
    /\ maint.prev = <<maint.job, maint.cm>>
    /\ maint.job \notin DOMAIN maint.pre.jobs /\ maint.cm \notin maint.pre.cms
    /\ maint.jobAns = 404 /\ maint.cmAns = 404
    /\ DOMAIN jobs # {} /\ cms # {}

\* ------------------------------------------------------------------ C12
\* C12 as stated: cleanup_all_by_prefix(p) requests deletions only for names
\* that start with p, and every Job and ConfigMap whose name does not start
\* with p still exists afterwards.
C12_BulkReapScoping ==
    maint.op = "bulk" =>
        /\ maint.reqJobs \cup maint.reqCms = Matching(maint.reqJobs \cup maint.reqCms)
        /\ (DOMAIN maint.pre.jobs) \ Matching(DOMAIN maint.pre.jobs) \subseteq DOMAIN jobs
        /\ maint.pre.cms \ Matching(maint.pre.cms) \subseteq cms

C20_JobDeletesBeforeConfigmapDeletes ==
    /\ maint.late = {}
    /\ \A r \in Runs : hist[r].delCm # 0 => hist[r].delJob # 0

\* ------------------------------------------------------------------ C15
\* C15 as stated: the started container runs, for a non-empty libraries_used,
\* one pip3 install naming exactly the listed libraries in order and then
\* python3 -u /app/script.py; for an empty list it runs python3 -u
\* /app/script.py alone.
C15_InstallThenExecute ==
    container.stage = "ran" =>
        container.executed =
            IF container.libraries_used # <<>>
            THEN << PIP_INSTALL \o container.libraries_used,
                    <<"python3", "-u">> \o SCRIPT_PATH >>
            ELSE << <<"python3", "-u">> \o SCRIPT_PATH >>

\* ------------------------------------------------------------------ C13
\* C13: with two run() calls interleaved, the Job and ConfigMap names of the
\* two differ, no creation is answered 409, each run's Job and ConfigMap
\* stay in the namespace from their creation until that run's own cleanup
\* deletes them (which finds them: 200, not 404), and what a run returns or
\* raises is made of its own Job's status, log and name.
C13_RunIsolation ==
    \A r \in Runs :
        /\ \A q \in Runs \ {r} :
              /\ job_name(r) # job_name(q)
              /\ configmap_name(r) # configmap_name(q)
        /\ hist[r].stageRes \in {0, 201} /\ hist[r].launchRes \in {0, 201}
        /\ (hist[r].stageRes = 201 /\ hist[r].delCm = 0) => configmap_name(r) \in cms
        /\ (hist[r].launchRes = 201 /\ hist[r].delJob = 0) => Exists(job_name(r))
        /\ hist[r].delJob \in {0, 200} /\ hist[r].delCm \in {0, 200}
        /\ Ended(r) => (~Exists(job_name(r)) /\ configmap_name(r) \notin cms)
        /\ WaitReturned(r) => pending[r] = WaitReturn(r, FetchedText(r))
        /\ TimedOut(r) =>
              pending[r] = RaiseTimeout(TimeoutMessage(job_name(r), timeout_seconds))

\* one run has finished and reaped its Job while the other, started under
\* the same prefix, is still polling its own
C13_Witness ==
    \E r \in Runs : \E q \in Runs \ {r} :
        /\ Ended(r) /\ hist[r].delJob = 200 /\ hist[r].delCm = 200
        /\ prefix[r] = prefix[q]
        /\ pc[q] = "poll" /\ hist[q].launchRes = 201
        /\ Exists(job_name(q)) /\ configmap_name(q) \in cms

\* ------------------------------------------------------------------ C18
\* C18: once the wait saw a finished status, run() returns a string and
\* never the API error message nor an exception: the placeholder when no
\* pod is listed, the log error message when listing or reading fails, and
\* otherwise the stripped log of the first listed pod (each after the
\* failure marker when the status was the failed one).
C18_LogRetrievalNeverAborts ==
    \A r \in Runs :
        /\ pc[r] = "read_log" => hist[r].pod = 1
        /\ hist[r].logs # "none" =>
              /\ pending[r].kind = "return"
              /\ hist[r].pollErr = 0
              /\ pending[r].value \notin {ApiErrorString(code) : code \in ErrStatuses}
              /\ pc[r] = "tool_end" => tool_result[r] = pending[r]
        /\ hist[r].logs = "nopod" =>
              /\ hist[r].pod = 0
              /\ pending[r].value \in {NO_POD_MESSAGE, FAILURE_MARKER \o NO_POD_MESSAGE}
        /\ hist[r].logs = "error" =>
              pending[r].value \in {LogErrorString(500),
                                    FAILURE_MARKER \o LogErrorString(500)}
        /\ hist[r].logs = "ok" =>
              /\ hist[r].pod = 1
              /\ pending[r].value \in {Strip(hist[r].raw),
                                        FAILURE_MARKER \o Strip(hist[r].raw)}

\* the Job succeeded and was removed before its pods were listed
C18_Witness ==
    \E r \in Runs :
        /\ Ended(r) /\ hist[r].logs = "nopod" /\ status[r].succeeded > 0
        /\ pending[r] = Return(NO_POD_MESSAGE)
        /\ hist[r].delJob = 404

====
